---- MODULE Spec2Model ----
(***************************************************************************)
(* Model of the four operational scripts of the repository:                *)
(*   scripts/scrape_nytimes_article.py    ("article")                      *)
(*   scripts/scrape_nytimes_simple.py     ("simple")                       *)
(*   scripts/add_ngrok_mapping.py         ("ngrok")                        *)
(*   scripts/create_sample_parquet_files.py ("parquet")                    *)
(* One run of one script is one behaviour: Init picks the script and its   *)
(* inputs (the rendered document, the command-line options, the files on   *)
(* disk), and the actions are the steps of the script's code.              *)
(***************************************************************************)
EXTENDS Integers, Sequences, FiniteSets, TLC

VARIABLES
    script,      \* which script this run executes
    pc,          \* position in the script
    exc,         \* exception in flight: "none", "Exception", "KeyboardInterrupt"
    exitCode,    \* process exit status, -1 while running
    \* the scrapers
    doc,         \* the rendered page (selector outcomes, body text)
    ext,         \* outcome of the content-extraction block
    pending,     \* value of the `return result` statement awaiting finally
    ret,         \* what the scrape function returned to __main__
    scrapeExc,   \* exception raised inside the scrape function once the page is open
    outFile,     \* the output path on disk
    printedContent, \* __main__ printed article content
    \* add_ngrok_mapping
    pythonExists,   \* Path(PARQUET_MCP_PYTHON).exists()
    serverExists,   \* Path(PARQUET_MCP_SERVER_PATH).exists()
    serverStarted,  \* stdio_client started the server subprocess
    initialized,    \* session.initialize() completed
    addRecordCalls, \* number of add_record tool calls issued
    success,        \* return value of add_ngrok_mapping(): "unset", "True", "False"
    \* create_sample_parquet_files
    fs,             \* the parquet files under DATA_DIR: path -> file
    runs,           \* number of batch runs started so far
    disk,           \* the source files find_parquet_files lists, in order
    hasParquetFileException, \* whether pd.errors has the attribute the except clause names
    max_files,      \* sys.argv[1] as a number, 0 when absent (or "0")
    files,          \* main's list after the optional limit
    idx,            \* 1-based position of the for loop
    calls,          \* per file: how its create_sample_file call went
    success_count,
    skip_count,
    error_count,
    interrupted     \* the loop was left by `break`

commonVars == <<script, pc, exc, exitCode>>
scraperVars == <<doc, ext, pending, ret, scrapeExc, outFile, printedContent>>
ngrokVars == <<pythonExists, serverExists, serverStarted, initialized, addRecordCalls, success>>
parquetVars == <<fs, runs, disk, hasParquetFileException, max_files, files, idx, calls,
                 success_count, skip_count, error_count, interrupted>>

vars == <<commonVars, scraperVars, ngrokVars, parquetVars>>

-----------------------------------------------------------------------------
(* Bounds of the model *)

\* at most this many selectors of a document have an outcome other than "miss"
MaxHits == 2

\* at most this many parquet files are under DATA_DIR before the first batch run
MaxFiles == 2

\* at most this many batch runs follow one another
MaxRuns == 2

-----------------------------------------------------------------------------
(* Texts.  A text is known by where it was read from and by its length;    *)
(* every empty string is the same value.                                   *)

PyNone == [src |-> "None", len |-> -1]

Text(src, n) == IF n = 0 THEN [src |-> "", len |-> 0] ELSE [src |-> src, len |-> n]

\* Python truthiness of a str-or-None value: `if content` / `not content`
Truthy(t) == t # PyNone /\ t.len > 0

\* the literal 500 of the two comparisons in scrape_article
MinLen == 500

\* lengths of element and body texts that the documents of the model use
Lens == {0, MinLen - 1, MinLen, MinLen + 1}

-----------------------------------------------------------------------------
(* Selector lists, in list order *)

SimpleSelectors ==
    << "article[data-testid=article]",
       "section[data-testid=article-body]",
       ".StoryBodyCompanionColumn",
       "article" >>

ArticleSelectors ==
    << "article[data-testid=article]",
       "article",
       "[data-testid=article-body]",
       "section[data-testid=article-body]",
       ".StoryBodyCompanionColumn",
       "div[class*=article]" >>

Selectors(s) == IF s = "simple" THEN SimpleSelectors ELSE ArticleSelectors

Range(seq) == {seq[i] : i \in DOMAIN seq}

(* Outcome of looking a selector up in a document:                         *)
(*   miss     the lookup returns None                                      *)
(*   err      the lookup raises (for wait_for_selector: the 5 s timeout)   *)
(*   texterr  an element is returned and its inner_text() raises           *)
(*   text     an element is returned and inner_text() returns .text        *)
Miss == [k |-> "miss", text |-> PyNone]
LookupErr == [k |-> "err", text |-> PyNone]
TextErr == [k |-> "texterr", text |-> PyNone]
Found(sel, n) == [k |-> "text", text |-> Text(sel, n)]

\* page.locator('body').inner_text(): a text, or it raises
BodyOutcomes == {[k |-> "err", text |-> PyNone]}
                    \cup {[k |-> "text", text |-> Text("body", n)] : n \in {0, MinLen + 1}}

\* what a selector that is not a miss does: raise, or yield a text of some length
HitKinds == {[e |-> "err", n |-> 0], [e |-> "texterr", n |-> 0]}
                \cup {[e |-> "text", n |-> n] : n \in Lens}

OutcomeOf(sel, h) ==
    IF h.e = "err" THEN LookupErr
    ELSE IF h.e = "texterr" THEN TextErr
    ELSE Found(sel, h.n)

\* the selector outcomes of the documents: at most MaxHits selectors are not a miss
SelectorMaps(s) ==
    LET S == Range(Selectors(s)) IN
    UNION { { [x \in S |-> IF x \in H THEN OutcomeOf(x, f[x]) ELSE Miss] : f \in [H -> HitKinds] }
            : H \in {h \in SUBSET S : Cardinality(h) <= MaxHits} }

Documents(s) == [sel : SelectorMaps(s), body : BodyOutcomes]

-----------------------------------------------------------------------------
(* The content-extraction block of each scraper.  The result records the   *)
(* content, the selectors that were looked up (in order), whether the      *)
(* fallback branch ran, and whether the block raised (only the body read   *)
(* of the fallback is outside the per-selector try).                       *)

ExtractionResult(content, probed, fallback, raised) ==
    [content |-> content, probed |-> probed, fallback |-> fallback, raised |-> raised]

NotExtracted == ExtractionResult(PyNone, << >>, FALSE, FALSE)

\* scrape_article: `if len(content) > 500: break`
SimpleSufficient(t) == t.len > MinLen

\* scrape_article: `if not content or len(content) < 500`
SimpleNeedsFallback(content) == ~Truthy(content) \/ content.len < MinLen

\* a selector's error ends the loop
SelectorErrorAborts == FALSE

\* what the `except: continue` of a selector's try does with the loop:
\* TRUE = go on with the next selector
SelectorErrorContinues == TRUE

(* scrape_article, the for loop over the selectors, from position i with   *)
(* the current value of `content`; yields <<content, probed>>.             *)
RECURSIVE SimpleLoop(_, _, _, _)
SimpleLoop(d, i, content, probed) ==
    IF i > Len(SimpleSelectors) THEN <<content, probed>>
    ELSE LET sel == SimpleSelectors[i]
             o == d.sel[sel]
             seen == Append(probed, sel)
         IN  IF o.k = "text"
             THEN IF SimpleSufficient(o.text)
                  THEN <<o.text, seen>>
                  ELSE SimpleLoop(d, i + 1, o.text, seen)
             ELSE IF o.k = "miss"
             THEN SimpleLoop(d, i + 1, content, seen)
             ELSE IF SelectorErrorContinues
             THEN SimpleLoop(d, i + 1, content, seen)
             ELSE <<content, seen>>

\* the fallback branch shared by both scrapers: content = body.inner_text()
Fallback(d, probed) ==
    IF d.body.k = "err"
    THEN ExtractionResult(PyNone, probed, TRUE, TRUE)
    ELSE ExtractionResult(d.body.text, probed, TRUE, FALSE)

SimpleExtract(d) ==
    LET r == SimpleLoop(d, 1, PyNone, << >>) IN
    IF SimpleNeedsFallback(r[1])
    THEN Fallback(d, r[2])
    ELSE ExtractionResult(r[1], r[2], FALSE, FALSE)

(* scrape_nytimes_article, the for loop: the first element found ends the  *)
(* loop, whatever its text.                                                *)
RECURSIVE ArticleLoop(_, _, _, _)
ArticleLoop(d, i, content, probed) ==
    IF i > Len(ArticleSelectors) THEN <<content, probed>>
    ELSE LET sel == ArticleSelectors[i]
             o == d.sel[sel]
             seen == Append(probed, sel)
         IN  IF o.k = "text"
             THEN <<o.text, seen>>
             ELSE IF o.k = "miss"
             THEN ArticleLoop(d, i + 1, content, seen)
             ELSE IF SelectorErrorContinues
             THEN ArticleLoop(d, i + 1, content, seen)
             ELSE <<content, seen>>

\* scrape_nytimes_article: `if not article_content`
ArticleNeedsFallback(content) == ~Truthy(content)

ArticleExtract(d) ==
    LET r == ArticleLoop(d, 1, PyNone, << >>) IN
    IF ArticleNeedsFallback(r[1])
    THEN Fallback(d, r[2])
    ELSE ExtractionResult(r[1], r[2], FALSE, FALSE)

Extract(s, d) == IF s = "simple" THEN SimpleExtract(d) ELSE ArticleExtract(d)

-----------------------------------------------------------------------------
(* The record each scraper builds and returns *)

\* the record without its date
ArticleRecordNoDate(url, title, author, pubDate, content) ==
    [url |-> url, title |-> title, author |-> author, content |-> content,
     content_length |-> IF Truthy(content) THEN content.len ELSE 0]

\* scrape_nytimes_article: result = {...}
ArticleRecord(url, title, author, pubDate, content) ==
    [url |-> url, title |-> title, author |-> author, publication_date |-> pubDate,
     content |-> content,
     content_length |-> IF Truthy(content) THEN content.len ELSE 0]

\* scrape_article: result = {...}
SimpleRecord(url, title, author, pubDate, content) ==
    [url |-> url, title |-> title, author |-> author,
     content |-> content, content_length |-> content.len]

BuildRecord(s, url, m, content) ==
    IF s = "simple"
    THEN SimpleRecord(url, m.title, m.author, m.pubDate, content)
    ELSE ArticleRecord(url, m.title, m.author, m.pubDate, content)

\* a Python function that ends without `return` returns None
NoneRecord == [none |-> TRUE]

\* title, byline and date of the pages of the model ("None": not found)
Metas == {[title |-> "T", author |-> "None", pubDate |-> "None"],
          [title |-> "T", author |-> "A", pubDate |-> "D"]}

Url == "https://www.nytimes.com/a.html"

-----------------------------------------------------------------------------------------------------------------------------------------------------
(* The variables of a script that is not the one running stay at rest *)

ScraperIdle ==
    /\ doc = [sel |-> << >>, body |-> Miss]
    /\ ext = NotExtracted
    /\ pending = {}
    /\ ret = {}
    /\ scrapeExc = "none"
    /\ outFile = [state |-> "absent", data |-> {}]
    /\ printedContent = FALSE

NgrokIdle ==
    /\ pythonExists = FALSE
    /\ serverExists = FALSE
    /\ serverStarted = FALSE
    /\ initialized = FALSE
    /\ addRecordCalls = 0
    /\ success = "unset"

ParquetIdle ==
    /\ fs = << >>
    /\ runs = 0
    /\ disk = << >>
    /\ hasParquetFileException = FALSE
    /\ max_files = 0
    /\ files = << >>
    /\ idx = 0
    /\ calls = << >>
    /\ success_count = 0
    /\ skip_count = 0
    /\ error_count = 0
    /\ interrupted = FALSE

-----
(* The scraper scripts, step by step *)

Scrapers == {"article", "simple"}

\* how a call into the browser, the terminal or the file system can end
StepOutcomes == {"ok", "Exception", "KeyboardInterrupt"}

NoFile == [state |-> "absent", data |-> {}]

InitScraper(s) ==
    /\ script = s
    /\ pc = "import"
    /\ exc = "none"
    /\ exitCode = -1
    /\ doc \in Documents(s)
    /\ ext = NotExtracted
    /\ pending = {}
    /\ ret = {}
    /\ scrapeExc = "none"
    /\ outFile = NoFile
    /\ printedContent = FALSE
    /\ NgrokIdle
    /\ ParquetIdle

\* try: from playwright.sync_api import ... except ImportError: sys.exit(1)
ImportPlaywright ==
    /\ script \in Scrapers /\ pc = "import"
    /\ \E installed \in BOOLEAN :
         IF installed
         THEN pc' = "launch" /\ exitCode' = exitCode
         ELSE pc' = "done" /\ exitCode' = 1
    /\ UNCHANGED <<script, exc, doc, ext, pending, ret, scrapeExc, outFile, printedContent, ngrokVars, parquetVars>>

\* sync_playwright(), launching the context and the page: before the try block
Launch ==
    /\ script \in Scrapers /\ pc = "launch"
    /\ \E o \in StepOutcomes :
         IF o = "ok"
         THEN pc' = "goto" /\ exc' = exc
         ELSE pc' = "main_except" /\ exc' = o
    /\ UNCHANGED <<script, exitCode, doc, ext, pending, ret, scrapeExc, outFile, printedContent, ngrokVars, parquetVars>>

\* page.goto(url, wait_until="networkidle", timeout=60000); page.wait_for_timeout(3000)
Navigate ==
    /\ script \in Scrapers /\ pc = "goto"
    /\ \E o \in StepOutcomes :
         IF o = "ok"
         THEN pc' = "extract" /\ UNCHANGED <<exc, scrapeExc>>
         ELSE pc' = "scrape_except" /\ exc' = o /\ scrapeExc' = o
    /\ UNCHANGED <<script, exitCode, doc, ext, pending, ret, outFile, printedContent, ngrokVars, parquetVars>>

\* the selector loop and the fallback
ExtractContent ==
    /\ script \in Scrapers /\ pc = "extract"
    /\ ext' = Extract(script, doc)
    /\ IF ext'.raised
       THEN pc' = "scrape_except" /\ exc' = "Exception" /\ scrapeExc' = "Exception"
       ELSE pc' = "meta" /\ UNCHANGED <<exc, scrapeExc>>
    /\ UNCHANGED <<script, exitCode, doc, pending, ret, outFile, printedContent, ngrokVars, parquetVars>>

\* page.title(), the author and date loops (their errors are swallowed per
\* selector), result = {...}, the prints, `return result`
ExtractMetadata ==
    /\ script \in Scrapers /\ pc = "meta"
    /\ \E o \in StepOutcomes, m \in Metas :
         IF o = "ok"
         THEN /\ pending' = {BuildRecord(script, Url, m, ext.content)}
              /\ pc' = "finally"
              /\ UNCHANGED <<exc, scrapeExc>>
         ELSE /\ pc' = "scrape_except" /\ exc' = o /\ scrapeExc' = o
              /\ pending' = pending
    /\ UNCHANGED <<script, exitCode, doc, ext, ret, outFile, printedContent, ngrokVars, parquetVars>>

\* the handler without its `raise`
ScrapeHandlerSwallows(e) == IF e = "Exception" THEN "none" ELSE e

\* `except Exception as e: print(...); raise`: the exception in flight after
\* the handler (a KeyboardInterrupt is not an Exception and passes by)
ScrapeHandler(e) == e

ScrapeExcept ==
    /\ script \in Scrapers /\ pc = "scrape_except"
    /\ exc' = ScrapeHandler(exc)
    /\ pc' = "finally"
    /\ UNCHANGED <<script, exitCode, doc, ext, pending, ret, scrapeExc, outFile, printedContent, ngrokVars, parquetVars>>

\* what the finally block can do: scrape_article waits (input or sleep) and closes
\* the context; scrape_nytimes_article closes it only without persistent context
FinallyOutcomes(s, persistent) ==
    IF s = "article" /\ persistent THEN {"ok"} ELSE StepOutcomes

(* finally, then the function ends: an exception of the finally block      *)
(* replaces whatever was in flight (a pending return value too); otherwise *)
(* the exception in flight propagates, or the pending value is returned.   *)
(* use_persistent_context is the negation of --no-persistent (article).    *)
Finally ==
    /\ script \in Scrapers /\ pc = "finally"
    /\ \E persistent \in BOOLEAN : \E o \in FinallyOutcomes(script, persistent) :
         IF o # "ok"
         THEN /\ exc' = o /\ scrapeExc' = o
              /\ ret' = {}
              /\ pc' = "main_except"
         ELSE IF exc # "none"
         THEN /\ pc' = "main_except"
              /\ UNCHANGED <<exc, scrapeExc, ret>>
         ELSE /\ ret' = IF pending = {} THEN {NoneRecord} ELSE pending
              /\ pc' = "main"
              /\ UNCHANGED <<exc, scrapeExc>>
    /\ UNCHANGED <<script, exitCode, doc, ext, pending, outFile, printedContent,
                   ngrokVars, parquetVars>>

\* args.output: always set in scrape_nytimes_simple.py (it has a default),
\* optional in scrape_nytimes_article.py
OutputChoices(s) == IF s = "simple" THEN {TRUE} ELSE BOOLEAN

(* __main__ after the scrape returned: write the JSON file (open truncates, *)
(* json.dump writes), or print the content.  scrape_nytimes_simple.py also  *)
(* prints a preview after saving.  result["content"] of None raises.        *)
CliOutput ==
    /\ script \in Scrapers /\ pc = "main"
    /\ \E output \in OutputChoices(script) :
       IF output
       THEN \E o \in StepOutcomes :
              IF o = "ok"
              THEN /\ outFile' = [state |-> "complete", data |-> ret]
                   /\ IF script = "simple" /\ ret = {NoneRecord}
                      THEN pc' = "main_except" /\ exc' = "Exception"
                           /\ UNCHANGED <<exitCode, printedContent>>
                      ELSE pc' = "done" /\ exitCode' = 0 /\ exc' = exc
                           /\ printedContent' = (script = "simple")
              ELSE /\ \E st \in {"absent", "partial"} : outFile' = [state |-> st, data |-> {}]
                   /\ pc' = "main_except" /\ exc' = o
                   /\ UNCHANGED <<exitCode, printedContent>>
       ELSE IF ret = {NoneRecord}
            THEN pc' = "main_except" /\ exc' = "Exception"
                 /\ UNCHANGED <<exitCode, printedContent, outFile>>
            ELSE pc' = "done" /\ exitCode' = 0 /\ printedContent' = TRUE
                 /\ UNCHANGED <<exc, outFile>>
    /\ UNCHANGED <<script, doc, ext, pending, ret, scrapeExc, ngrokVars, parquetVars>>

\* except KeyboardInterrupt: sys.exit(1) / except Exception: sys.exit(1)
ScraperExitCode(e) == IF e = "KeyboardInterrupt" THEN 1 ELSE 1

MainExcept ==
    /\ script \in Scrapers /\ pc = "main_except"
    /\ exitCode' = ScraperExitCode(exc)
    /\ pc' = "done"
    /\ UNCHANGED <<script, exc, doc, ext, pending, ret, scrapeExc, outFile, printedContent, ngrokVars, parquetVars>>

-----------------------------------------------------------------------------
(* add_ngrok_mapping.py *)

InitNgrok ==
    /\ script = "ngrok"
    /\ pc = "import"
    /\ exc = "none"
    /\ exitCode = -1
    /\ pythonExists \in BOOLEAN
    /\ serverExists \in BOOLEAN
    /\ serverStarted = FALSE
    /\ initialized = FALSE
    /\ addRecordCalls = 0
    /\ success = "unset"
    /\ ScraperIdle
    /\ ParquetIdle

\* try: from mcp import ... except ImportError: sys.exit(1)
ImportMcp ==
    /\ script = "ngrok" /\ pc = "import"
    /\ \E installed \in BOOLEAN :
         IF installed
         THEN pc' = "check_python" /\ exitCode' = exitCode
         ELSE pc' = "done" /\ exitCode' = 1
    /\ UNCHANGED <<script, exc, scraperVars, ngrokVars, parquetVars>>

\* `if not Path(PARQUET_MCP_PYTHON).exists()`
PythonMissing(exists) == ~exists

\* the check of the server script left out
ServerScriptCheckSkipped(exists) == FALSE

\* `if not Path(PARQUET_MCP_SERVER_PATH).exists()`
ServerScriptMissing(exists) == ~exists

CheckPython ==
    /\ script = "ngrok" /\ pc = "check_python"
    /\ IF PythonMissing(pythonExists)
       THEN success' = "False" /\ pc' = "exit"
       ELSE success' = success /\ pc' = "check_script"
    /\ UNCHANGED <<script, exc, exitCode, scraperVars, pythonExists, serverExists,
                   serverStarted, initialized, addRecordCalls, parquetVars>>

CheckServerScript ==
    /\ script = "ngrok" /\ pc = "check_script"
    /\ IF ServerScriptMissing(serverExists)
       THEN success' = "False" /\ pc' = "exit"
       ELSE success' = success /\ pc' = "start"
    /\ UNCHANGED <<script, exc, exitCode, scraperVars, pythonExists, serverExists,
                   serverStarted, initialized, addRecordCalls, parquetVars>>

\* where an exception raised inside the try block of add_ngrok_mapping goes:
\* `except Exception` takes an Exception, a KeyboardInterrupt leaves the function
RaisedInTry(o) == IF o = "Exception" THEN "connect_except" ELSE "uncaught"

\* async with stdio_client(server_params): the server subprocess is spawned
StartTransport ==
    /\ script = "ngrok" /\ pc = "start"
    /\ \E o \in StepOutcomes :
         IF o = "ok"
         THEN serverStarted' = TRUE /\ pc' = "initialize" /\ exc' = exc
         ELSE serverStarted' = serverStarted /\ pc' = RaisedInTry(o) /\ exc' = o
    /\ UNCHANGED <<script, exitCode, scraperVars, pythonExists, serverExists,
                   initialized, addRecordCalls, success, parquetVars>>

\* async with ClientSession(read, write) as session: await session.initialize()
InitializeSession ==
    /\ script = "ngrok" /\ pc = "initialize"
    /\ \E o \in StepOutcomes :
         IF o = "ok"
         THEN initialized' = TRUE /\ pc' = "call_tool" /\ exc' = exc
         ELSE initialized' = initialized /\ pc' = RaisedInTry(o) /\ exc' = o
    /\ UNCHANGED <<script, exitCode, scraperVars, pythonExists, serverExists,
                   serverStarted, addRecordCalls, success, parquetVars>>

\* result = await session.call_tool("add_record", ...); if result.isError:
\* return False; ...; return True
CallAddRecord ==
    /\ script = "ngrok" /\ pc = "call_tool"
    /\ addRecordCalls' = addRecordCalls + 1
    /\ \E o \in StepOutcomes, isError \in BOOLEAN :
         IF o = "ok"
         THEN success' = (IF isError THEN "False" ELSE "True") /\ pc' = "exit" /\ exc' = exc
         ELSE success' = success /\ pc' = RaisedInTry(o) /\ exc' = o
    /\ UNCHANGED <<script, exitCode, scraperVars, pythonExists, serverExists,
                   serverStarted, initialized, parquetVars>>

\* except Exception as e: print(...); return False
ConnectExcept ==
    /\ script = "ngrok" /\ pc = "connect_except"
    /\ success' = "False"
    /\ pc' = "exit"
    /\ UNCHANGED <<script, exc, exitCode, scraperVars, pythonExists, serverExists,
                   serverStarted, initialized, addRecordCalls, parquetVars>>

\* sys.exit(0 if success else 1)
NgrokExit ==
    /\ script = "ngrok" /\ pc = "exit"
    /\ exitCode' = IF success = "True" THEN 0 ELSE 1
    /\ pc' = "done"
    /\ UNCHANGED <<script, exc, scraperVars, ngrokVars, parquetVars>>

\* exit status of a Python process ended by an unhandled KeyboardInterrupt
\* (the interpreter re-raises SIGINT on itself: 128 + signal number 2)
SigintStatus == 128 + 2

\* asyncio.run() re-raises the KeyboardInterrupt; nothing in __main__ handles it
NgrokUncaught ==
    /\ script = "ngrok" /\ pc = "uncaught"
    /\ exitCode' = SigintStatus
    /\ pc' = "done"
    /\ UNCHANGED <<script, exc, scraperVars, ngrokVars, parquetVars>>

-----------------------------------------------------------------------------
(* create_sample_parquet_files.py *)

SAMPLE_SIZE == 50

\* `file_size_mb = st_size / (1024 * 1024)`, `if file_size_mb > 100`
MaxSizeMB == 100
BytesPerMB == 1024 * 1024

Min(a, b) == IF a < b THEN a ELSE b

\* the size test of create_sample_file: the division by 2^20 is exact, so the
\* comparison of the quotient with 100 is the comparison of the bytes with 100 * 2^20
TooLarge(st_size) == st_size > MaxSizeMB * BytesPerMB

\* the rows of a source file with n rows, in file order
Rows(n) == [k \in 1 .. n |-> k]

\* the last rows instead of the first
SampleOfTail(rows) ==
    SubSeq(rows, Len(rows) - Min(SAMPLE_SIZE, Len(rows)) + 1, Len(rows))

\* df.head(min(SAMPLE_SIZE, len(df)))
SampleOf(rows) == SubSeq(rows, 1, Min(SAMPLE_SIZE, Len(rows)))

(* A source file: its size in bytes, whether pd.read_parquet can read it   *)
(* (a corrupt file raises), and its number of rows.                        *)
SourceSizes == {MaxSizeMB * BytesPerMB, MaxSizeMB * BytesPerMB + 1}

SourceFiles ==
    [st_size : SourceSizes, readable : {TRUE}, nrows : {0, 1, SAMPLE_SIZE, SAMPLE_SIZE + 1}]
        \cup [st_size : SourceSizes, readable : {FALSE}, nrows : {0}]

NoSample == [state |-> "absent", rows |-> << >>]
OldSample == [state |-> "existing", rows |-> << >>]

NotCalled == [result |-> "none", io |-> "none"]

(* What the reads and writes of one create_sample_file call meet:          *)
(*   ok               nothing raises                                       *)
(*   read_interrupt   KeyboardInterrupt during pd.read_parquet             *)
(*   write_error      to_parquet raises an Exception, leaving a partial    *)
(*                    file                                                 *)
(*   write_interrupt  KeyboardInterrupt during to_parquet                  *)
IOs == {"ok", "read_interrupt", "write_error", "write_interrupt"}

(* The except clauses of create_sample_file for an exception e raised in   *)
(* the try block.  The first clause names pd.errors.ParquetFileException:  *)
(* when pd.errors has no such attribute, evaluating the clause raises      *)
(* AttributeError, which leaves the function.  Otherwise an Exception is   *)
(* answered by `return False` and a KeyboardInterrupt is not handled.      *)
SampleHandlers(e, hasAttr) ==
    IF ~hasAttr THEN "AttributeError"
    ELSE IF e = "Exception" THEN "False"
    ELSE "KeyboardInterrupt"

\* create_sample_file(source_path, sample_path): its result ("True", "False",
\* or the exception that leaves it) and the sample path afterwards
create_sample_file(f, sample, io, hasAttr) ==
    IF TooLarge(f.st_size)
    THEN [result |-> "False", sample |-> sample]
    ELSE IF io = "read_interrupt"
    THEN [result |-> SampleHandlers("KeyboardInterrupt", hasAttr), sample |-> sample]
    ELSE IF ~f.readable
    THEN [result |-> SampleHandlers("Exception", hasAttr), sample |-> sample]
    ELSE IF Len(SampleOf(Rows(f.nrows))) = 0
    THEN [result |-> "False", sample |-> sample]
    ELSE IF io = "write_error"
    THEN [result |-> SampleHandlers("Exception", hasAttr),
          sample |-> [state |-> "partial", rows |-> << >>]]
    ELSE IF io = "write_interrupt"
    THEN [result |-> SampleHandlers("KeyboardInterrupt", hasAttr),
          sample |-> [state |-> "partial", rows |-> << >>]]
    ELSE [result |-> "True",
          sample |-> [state |-> "written", rows |-> SampleOf(Rows(f.nrows))]]

-----------------------------------------------------------------------------
(* Paths.  A path is its parent directory (a sequence of components) and   *)
(* its file name (a sequence of pieces, "_sample" and ".parquet" being     *)
(* pieces of their own), so that `in` and `replace` on the strings are     *)
(* `occurs in` and `replace` on the pieces.                                *)

Path(parent, name) == [parent |-> parent, name |-> name]

Occurs(piece, seq) == \E i \in DOMAIN seq : seq[i] = piece

\* parquet_file.name.replace(".parquet", "_sample.parquet"): every occurrence
RECURSIVE ReplaceParquet(_)
ReplaceParquet(name) ==
    IF name = << >> THEN << >>
    ELSE (IF Head(name) = ".parquet" THEN <<"_sample", ".parquet">> ELSE <<Head(name)>>)
             \o ReplaceParquet(Tail(name))

\* parquet_file.parent / parquet_file.name.replace(".parquet", "_sample.parquet")
SamplePath(p) == Path(p.parent, ReplaceParquet(p.name))

\* the test without its "_sample" half
SkippedSnapshotsOnly(p) == Occurs("snapshots", p.parent \o p.name)

\* `if "_sample" in parquet_file.name or "snapshots" in str(parquet_file)`
Skipped(p) == Occurs("_sample", p.name) \/ Occurs("snapshots", p.parent \o p.name)

\* rglob("*.parquet")
MatchesGlob(p) == p.name # << >> /\ p.name[Len(p.name)] = ".parquet"

\* the directories and file names of the model
Parents == {<<"data">>, <<"data", "sub">>, <<"data", "snapshots">>}
Names == {<<"a", ".parquet">>, <<"a", "_sample", ".parquet">>}

\* the paths a file can be at before the first run
Universe == {Path(d, n) : d \in Parents, n \in Names}

\* those and the paths a sample can be written to
AllPaths == Universe \cup {SamplePath(p) : p \in Universe}

(* A file: `state` and `rows` tell how it came to be and what a sample     *)
(* holds (absent, existing before the first run, written by a run, or      *)
(* left partial by a failed write); the other fields are what              *)
(* create_sample_file meets when it reads the file as a source.            *)
File(state, rows, c) ==
    [state |-> state, rows |-> rows,
     st_size |-> c.st_size, readable |-> c.readable, nrows |-> c.nrows]

\* what a file that is not one of the model's sources holds
PlainContent == [st_size |-> MaxSizeMB * BytesPerMB, readable |-> TRUE, nrows |-> 1]

NoFileAt == File("absent", << >>, [st_size |-> 0, readable |-> FALSE, nrows |-> 0])

\* the state and rows of a file: the view main and create_sample_file have of a
\* sample path
AsSample(file) == [state |-> file.state, rows |-> file.rows]

\* the file a sample path holds after create_sample_file left it as `sample`
StoredSample(old, sample) ==
    IF sample = AsSample(old) THEN old
    ELSE File(sample.state, sample.rows,
              [st_size |-> Len(sample.rows), readable |-> sample.state = "written",
               nrows |-> Len(sample.rows)])

\* the trees before the first run: at most MaxFiles files; a file that
\* find_parquet_files would list holds any of SourceFiles
InitialTrees ==
    UNION { { [p \in AllPaths |->
                 IF p \notin P THEN NoFileAt
                 ELSE IF p \in DOMAIN c THEN File("existing", << >>, c[p])
                 ELSE File("existing", << >>, PlainContent)]
              : c \in [{p \in P : ~Skipped(p)} -> SourceFiles] }
            : P \in {Q \in SUBSET Universe : Cardinality(Q) <= MaxFiles} }

RECURSIVE Orders(_)
Orders(S) ==
    IF S = {} THEN {<< >>}
    ELSE UNION { {<<x>> \o o : o \in Orders(S \ {x})} : x \in S }

\* what root_path.rglob("*.parquet") can yield: the matching files, in any order
Listings(tree) ==
    Orders({p \in DOMAIN tree : tree[p].state # "absent" /\ MatchesGlob(p)})

(* find_parquet_files over one listing: a file_info per file that is not   *)
(* skipped, with what the source holds.                                    *)
RECURSIVE find_parquet_files(_, _)
find_parquet_files(listing, tree) ==
    IF listing = << >> THEN << >>
    ELSE LET p == Head(listing)
             rest == find_parquet_files(Tail(listing), tree)
         IN  IF Skipped(p) THEN rest
             ELSE << [source |-> p, sample |-> SamplePath(p), name |-> p.name,
                      st_size |-> tree[p].st_size, readable |-> tree[p].readable,
                      nrows |-> tree[p].nrows] >> \o rest

\* the sample path of each listed source file, as it is on disk
samples == [j \in DOMAIN disk |-> AsSample(fs[disk[j].sample])]

\* sys.argv[1] when it is all digits, as a number; 0 stands for no argument too
\* (`if max_files:` treats 0 and None alike)
ArgChoices == {0, 1}

InitParquet ==
    /\ script = "parquet"
    /\ pc = "start"
    /\ exc = "none"
    /\ exitCode = -1
    /\ fs \in InitialTrees
    /\ runs = 1
    /\ disk = << >>
    /\ hasParquetFileException \in BOOLEAN
    /\ max_files \in ArgChoices
    /\ files = << >>
    /\ idx = 0
    /\ calls = << >>
    /\ success_count = 0
    /\ skip_count = 0
    /\ error_count = 0
    /\ interrupted = FALSE
    /\ ScraperIdle
    /\ NgrokIdle

\* main up to the loop: files = find_parquet_files(DATA_DIR); files[:max_files]
MainStart ==
    /\ script = "parquet" /\ pc = "start"
    /\ \E listing \in Listings(fs) : disk' = find_parquet_files(listing, fs)
    /\ files' = IF max_files # 0 THEN SubSeq(disk', 1, Min(max_files, Len(disk'))) ELSE disk'
    /\ calls' = [j \in DOMAIN disk' |-> NotCalled]
    /\ idx' = 1
    /\ pc' = IF Len(files') = 0 THEN "complete" ELSE "loop"
    /\ UNCHANGED <<script, exc, exitCode, scraperVars, ngrokVars, fs, runs,
                   hasParquetFileException, max_files, success_count,
                   skip_count, error_count, interrupted>>

\* main without its `except Exception`
MainCountsNoCatchAll(result) ==
    IF result = "True" THEN "success"
    ELSE IF result = "False" THEN "error"
    ELSE IF result = "KeyboardInterrupt" THEN "break"
    ELSE "crash"

(* What main does with the outcome of create_sample_file:                  *)
(*   True -> success_count, False -> error_count,                          *)
(*   except KeyboardInterrupt -> break, except Exception -> error_count    *)
MainCounts(result) ==
    IF result = "True" THEN "success"
    ELSE IF result = "False" THEN "error"
    ELSE IF result = "KeyboardInterrupt" THEN "break"
    ELSE "error"

\* `if file_info["sample"].exists()`
SampleExists(tree, info) == tree[info.sample].state # "absent"

\* one iteration of the for loop of main
ProcessFile ==
    /\ script = "parquet" /\ pc = "loop" /\ idx <= Len(files)
    /\ IF SampleExists(fs, files[idx])
       THEN /\ skip_count' = skip_count + 1
            /\ idx' = idx + 1
            /\ pc' = IF idx' > Len(files) THEN "complete" ELSE "loop"
            /\ UNCHANGED <<fs, calls, success_count, error_count, interrupted>>
       ELSE \E io \in IOs :
            LET r == create_sample_file(fs[files[idx].source], samples[idx], io,
                                        hasParquetFileException)
                c == MainCounts(r.result)
            IN  /\ fs' = [fs EXCEPT ![files[idx].sample] = StoredSample(@, r.sample)]
                /\ calls' = [calls EXCEPT ![idx] = [result |-> r.result, io |-> io]]
                /\ success_count' = IF c = "success" THEN success_count + 1 ELSE success_count
                /\ error_count' = IF c = "error" THEN error_count + 1 ELSE error_count
                /\ skip_count' = skip_count
                /\ IF c = "break"
                   THEN interrupted' = TRUE /\ idx' = idx /\ pc' = "complete"
                   ELSE IF c = "crash"   \* no handler of main took the exception
                   THEN interrupted' = interrupted /\ idx' = idx /\ pc' = "crashed"
                   ELSE /\ interrupted' = interrupted
                        /\ idx' = idx + 1
                        /\ pc' = IF idx' > Len(files) THEN "complete" ELSE "loop"
    /\ UNCHANGED <<script, exc, exitCode, scraperVars, ngrokVars, runs, disk,
                   hasParquetFileException, max_files, files>>

\* the summary prints; main returns and the process ends with status 0
Complete ==
    /\ script = "parquet" /\ pc = "complete"
    /\ pc' = "done"
    /\ exitCode' = 0
    /\ UNCHANGED <<script, exc, scraperVars, ngrokVars, parquetVars>>

\* the script is started again, on the tree the earlier runs left
RunAgain ==
    /\ script = "parquet" /\ pc = "done" /\ runs < MaxRuns
    /\ runs' = runs + 1
    /\ pc' = "start"
    /\ exitCode' = -1
    /\ max_files' \in ArgChoices
    /\ disk' = << >>
    /\ files' = << >>
    /\ calls' = << >>
    /\ idx' = 0
    /\ success_count' = 0
    /\ skip_count' = 0
    /\ error_count' = 0
    /\ interrupted' = FALSE
    /\ UNCHANGED <<script, exc, scraperVars, ngrokVars, fs, hasParquetFileException>>

-----------------------------------------------------------------------------

Init ==
    \/ \E s \in Scrapers : InitScraper(s)
    \/ InitNgrok
    \/ InitParquet

Next ==
    \/ ImportPlaywright
    \/ Launch
    \/ Navigate
    \/ ExtractContent
    \/ ExtractMetadata
    \/ ScrapeExcept
    \/ Finally
    \/ CliOutput
    \/ MainExcept
    \/ ImportMcp
    \/ CheckPython
    \/ CheckServerScript
    \/ StartTransport
    \/ InitializeSession
    \/ CallAddRecord
    \/ ConnectExcept
    \/ NgrokExit
    \/ NgrokUncaught
    \/ MainStart
    \/ ProcessFile
    \/ Complete
    \/ RunAgain

Spec == Init /\ [][Next]_vars

-----------------------------------------------------------------------------
(* Properties of the content extraction *)

\* the content-extraction block of this run has been executed
Extracted == script \in Scrapers /\ ext # NotExtracted

(* The minimum length of the specification, per scraper: 500 characters    *)
(* for scrape_article; scrape_nytimes_article has no number, its test of   *)
(* a usable content is that the text is not empty.                         *)
Sufficient(s, t) == IF s = "simple" THEN t.len >= MinLen ELSE Truthy(t)

\* the positions of the selectors whose element text is sufficient
SufficientAt(s, d) ==
    {i \in DOMAIN Selectors(s) :
        d.sel[Selectors(s)[i]].k = "text" /\ Sufficient(s, d.sel[Selectors(s)[i]].text)}

FirstOf(I) == CHOOSE i \in I : \A j \in I : i <= j

(* C1: when some selector of the list yields an element text of at least   *)
(* the minimum length, the extracted content is the text of the first such *)
(* selector in list order.                                                 *)
C1_FirstSufficientSelectorWins ==
    (Extracted /\ SufficientAt(script, doc) # {})
        => ext.content = doc.sel[Selectors(script)[FirstOf(SufficientAt(script, doc))]].text

\* some selector that the loop looked up produced a text of sufficient length
ProducedSufficient(s, d, probed) ==
    \E x \in Range(probed) : d.sel[x].k = "text" /\ Sufficient(s, d.sel[x].text)

(* C2: the fallback branch runs exactly when no selector that was looked   *)
(* up produced a text of at least the minimum length, and then the content *)
(* is the body text, whatever its length.                                  *)
C2_FallbackIffNothingSufficient ==
    Extracted =>
        /\ ext.fallback <=> ~ProducedSufficient(script, doc, ext.probed)
        /\ (ext.fallback /\ ~ext.raised) => ext.content = doc.body.text

\* the document in which every raising selector matches nothing instead
ErrorsAsMisses(d) ==
    [d EXCEPT !.sel = [x \in DOMAIN d.sel |->
                          IF d.sel[x].k \in {"err", "texterr"} THEN Miss ELSE d.sel[x]]]

(* C3: a selector whose lookup or text read raises counts as a selector    *)
(* that matched nothing: the extraction gives the same content, looks up   *)
(* the same selectors and takes the same branch as on the document where   *)
(* those selectors match nothing, and only the body read of the fallback   *)
(* can make the block raise.                                               *)
C3_SelectorErrorIsNoMatch ==
    Extracted =>
        /\ ext = Extract(script, ErrorsAsMisses(doc))
        /\ ext.raised => (ext.fallback /\ doc.body.k = "err")

\* a selector raised, and a later selector of the list gave the content
C3_Witness ==
    /\ Extracted
    /\ \E i, j \in DOMAIN Selectors(script) :
         /\ i < j
         /\ doc.sel[Selectors(script)[i]].k \in {"err", "texterr"}
         /\ doc.sel[Selectors(script)[j]].k = "text"
         /\ ~ext.fallback
         /\ ext.content = doc.sel[Selectors(script)[j]].text
         /\ Selectors(script)[j] \in Range(ext.probed)

-----------------------------------------------------------------------------
(* Properties of the scraper runs *)

RecordFields == {"url", "title", "author", "publication_date", "content", "content_length"}

\* the records this run has returned to __main__ or written to the output path
Records == ret \cup outFile.data

(* C4 as stated: every record returned or written has the six fields url,  *)
(* title, author, publication_date, content and content_length.            *)
C4_SixFieldsInBothScrapers ==
    script \in Scrapers => \A r \in Records : DOMAIN r = RecordFields

(* C4 as amended: the record of scrape_nytimes_article has the six fields; *)
(* the record of scrape_article has the same fields except                 *)
(* publication_date; the file holds the returned record.                   *)
C4_RecordFieldsPerScraper ==
    script \in Scrapers =>
        /\ \A r \in Records :
             DOMAIN r = IF script = "article" THEN RecordFields
                        ELSE RecordFields \ {"publication_date"}
        /\ outFile.state = "complete" => outFile.data = ret

\* scrape_nytimes_article returned a record and the CLI wrote it to the output path
C4_Witness ==
    /\ script = "article"
    /\ pc = "done"
    /\ outFile.state = "complete"
    /\ \E r \in outFile.data : r.content = ext.content /\ r.url = Url

\* the run of a scraper or of add_ngrok_mapping did what it is for
Succeeded ==
    IF script \in Scrapers
    THEN ret # {} /\ (outFile.state = "complete" \/ printedContent)
    ELSE success = "True"

(* C5: the two scraper CLIs and add_ngrok_mapping end with status 0        *)
(* exactly when the operation succeeded, and with status 1 otherwise.      *)
C5_ExitZeroIffSucceeded ==
    (script \in Scrapers \cup {"ngrok"} /\ pc = "done")
        => /\ exitCode = 0 <=> Succeeded
           /\ ~Succeeded => exitCode = 1

(* C6: once an exception was raised inside the scrape function after the   *)
(* page was opened, the function returns no record, no output file is      *)
(* written, no article content is printed, and the run ends with status 1. *)
C6_FatalErrorGivesNoPartialResult ==
    (script \in Scrapers /\ scrapeExc # "none")
        => /\ ret = {}
           /\ outFile = NoFile
           /\ ~printedContent
           /\ pc # "main"
           /\ pc = "done" => exitCode = 1

\* the content was extracted, a later step of the scrape raised, and the run ended
C6_Witness ==
    /\ script \in Scrapers
    /\ Extracted /\ ~ext.raised
    /\ scrapeExc = "Exception"
    /\ pc = "done"

-----------------------------------------------------------------------------
(* Properties of create_sample_parquet_files.py *)

\* create_sample_file has been called on file j and has ended
Called(j) == calls[j] # NotCalled

\* the call on file j read its source without being interrupted
ReadUndisturbed(j) == calls[j].io # "read_interrupt"

C10_BatchCountsEveryFile ==
    (script = "parquet" /\ pc # "start" /\ ~interrupted) =>
        /\ success_count + skip_count + error_count = idx - 1
        /\ \A j \in DOMAIN files : Called(j) => j < idx
        /\ pc \in {"loop", "complete", "done"}
        /\ pc \in {"complete", "done"}
             => success_count + skip_count + error_count = Len(files)

\* the batch completed although a corrupt file failed, and a later file got its sample
C10_Witness ==
    /\ script = "parquet" /\ pc = "done" /\ ~interrupted
    /\ \E j, k \in DOMAIN files :
         /\ j < k
         /\ ~disk[j].readable /\ ~TooLarge(disk[j].st_size)
         /\ calls[j].io = "ok"
         /\ calls[j].result \in {"False", "AttributeError"}
         /\ calls[k].result = "True"
    /\ error_count >= 1 /\ success_count >= 1

\* the path is the sample path of a file named with "_sample" or lying under "snapshots"
SampleOfSkipped(p) ==
    \E q \in AllPaths :
        /\ p = SamplePath(q)
        /\ Occurs("_sample", q.name) \/ Occurs("snapshots", q.parent \o q.name)

(* C11: over any sequence of batch runs, no step changes a file that       *)
(* exists: the only path a step changes is the sample path of the file the *)
(* loop is at, and that path held no file; no file named with "_sample" or *)
(* lying under "snapshots" is listed as a source, every listed source is a *)
(* file on disk, and no sample of such a file is ever produced.            *)
C11_ExistingFilesNeverOverwritten ==
    [][script = "parquet" =>
         /\ \A p \in AllPaths :
                fs'[p] # fs[p] => /\ fs[p].state = "absent"
                                  /\ pc = "loop"
                                  /\ p = files[idx].sample
                                  /\ idx \in DOMAIN calls' /\ calls'[idx] # NotCalled
         /\ \A j \in DOMAIN disk' :
                /\ ~Occurs("_sample", disk'[j].source.name)
                /\ ~Occurs("snapshots", disk'[j].source.parent \o disk'[j].source.name)
                /\ fs'[disk'[j].source].state # "absent"
         /\ \A p \in AllPaths :
                SampleOfSkipped(p) => fs'[p].state \notin {"written", "partial"}
    ]_vars

\* a later run has completed: it skipped the source whose sample an earlier run
\* wrote, did not list that sample as a source, and a file under "snapshots"
\* and a source are still as they were before the first run
C11_Witness ==
    /\ script = "parquet" /\ runs > 1 /\ pc = "done"
    /\ \E j \in DOMAIN files :
         /\ fs[files[j].sample].state = "written"
         /\ fs[files[j].source].state = "existing"
         /\ calls[j] = NotCalled
         /\ \A k \in DOMAIN disk : disk[k].source # files[j].sample
    /\ skip_count = 1 /\ success_count = 0 /\ error_count = 0
    /\ \E p \in AllPaths :
         Occurs("snapshots", p.parent) /\ fs[p].state = "existing"

-----------------------------------------------------------------------------
(* Properties of add_ngrok_mapping.py *)

(* C9: add_record is issued only after both existence checks passed and    *)
(* the session was initialized; when the Python executable or the server   *)
(* script is missing the function returns False with no server started and *)
(* no add_record issued.                                                   *)
C9_ChecksBeforeAnyWork ==
    script = "ngrok" =>
        /\ addRecordCalls > 0 => (pythonExists /\ serverExists /\ serverStarted /\ initialized)
        /\ serverStarted => (pythonExists /\ serverExists)
        /\ (~pythonExists \/ ~serverExists)
             => /\ ~serverStarted /\ ~initialized /\ addRecordCalls = 0
                /\ success # "True"
                /\ pc \in {"exit", "done"} /\ success # "unset" => success = "False"
                /\ pc \notin {"start", "initialize", "call_tool", "connect_except", "uncaught"}

\* the server script is missing and the function has returned False
C9_Witness ==
    /\ script = "ngrok"
    /\ pythonExists /\ ~serverExists
    /\ pc = "exit" /\ success = "False"
    /\ ~serverStarted /\ addRecordCalls = 0

====
